---- MODULE Spec2Model ----
(***************************************************************************)
(* Model of the Wordle solver of src/wordle/Solving Wordle.ipynb: the      *)
(* feedback oracle play_wordle, the frequency table of most_shared, the    *)
(* bucketing and tie-breaking of feature_bucket / break_ties, the filter   *)
(* eliminate, the attempt loop of compute_wordle and the batch driver      *)
(* wordle_simulations.                                                     *)
(*                                                                         *)
(* A word is a sequence of one-letter strings, a pool (the dict `cands`,   *)
(* word -> set(word), in insertion order) is the sequence of its keys, a   *)
(* board is a sequence of slots, each a letter or the empty string "".     *)
(***************************************************************************)
EXTENDS FiniteSets, Integers, Sequences, TLC

\* ------------------------------------------------------------- bounds
\* largest number of words in the dictionary `data`
MaxDict == 2
\* largest max_tries passed to compute_wordle
MaxTries == 3
\* largest sample size n passed to wordle_simulations
MaxN == 2
\* largest number of times cell 21 is run in one notebook session
MaxRuns == 2

VARIABLES
    data,           \* the word list loaded from la.json
    usage_vowels,   \* the global vowel table, items of most_shared(data, True)
    cands,          \* the pool handed to compute_wordle / eliminate
    secret,         \* example_wordle_word, the word of the day
    max_tries,      \* compute_wordle's max_tries
    attempt,        \* wordle_guess_attempt
    pc,             \* the position in compute_wordle (or in a test cell)
    guess_word,     \* the last guess chosen
    board,          \* the last board; <<>> while the local is unassigned
    found,          \* the last found set
    contra,         \* the last contra set
    result,         \* what compute_wordle returned or raised
    guesses,        \* history: the guesses play_wordle has evaluated in this game
    cands0,         \* history: the pool as it was handed in
    driver,         \* which cell runs: "none", "direct" (cell 21), "batch" (cell 24)
    wordle_words,   \* the batch's sample of secrets
    bi,             \* the batch's position in wordle_words (1-based)
    status,         \* the batch's result list
    earlier         \* history: what the earlier runs of cell 21 returned or raised

vars == <<data, usage_vowels, cands, secret, max_tries, attempt, pc, guess_word,
          board, found, contra, result, guesses, cands0, driver, wordle_words,
          bi, status, earlier>>

\* ---------------------------------------------------------- constants
CONSONANTS == {"b","c","d","f","g","h","j","k","l","m","n","p","q","r","s","t","v","w","x","z"}
VOWELS == {"a","e","i","o","u","y"}

\* the letters the modelled word list is written with
Letters == {"a", "e", "s"}
\* the slots of a word: the model's words have two letters, the notebook's five
Positions == 1..2
Words == [Positions -> Letters]
\* the word lists `data` can hold: no word twice
Dictionaries ==
    {d \in UNION {[1..k -> Words] : k \in 0..MaxDict} :
        \A i, j \in DOMAIN d : i # j => d[i] # d[j]}
\* every board a caller can hand to eliminate
Boards == [Positions -> Letters \cup {""}]
TriesRange == (0 - 1)..MaxTries

\* ------------------------------------------------------------ helpers
\* set(word)
Range(s) == {s[i] : i \in DOMAIN s}
Min(a, b) == IF a <= b THEN a ELSE b
Max(S) == CHOOSE x \in S : \A y \in S : y <= x

\* "".join(board): empty slots contribute nothing
RECURSIVE join(_)
join(brd) ==
    IF brd = <<>> THEN <<>>
    ELSE IF Head(brd) = "" THEN join(Tail(brd))
    ELSE <<Head(brd)>> \o join(Tail(brd))

\* ------------------------------------------------------- play_wordle
\* the loop over zip(word_of_the_day, guess): one slot per pair, appended in
\* order; zip stops at the shorter of the two
RECURSIVE zip_board(_, _)
zip_board(word_of_the_day, guess) ==
    IF word_of_the_day = <<>> \/ guess = <<>> THEN <<>>
    ELSE <<IF Head(word_of_the_day) = Head(guess) THEN Head(guess) ELSE "">>
         \o zip_board(Tail(word_of_the_day), Tail(guess))

\* variant: a letter counts as found only where it sits in the right place
play_wordle_positional(guess, word_of_the_day) ==
    << zip_board(word_of_the_day, guess),
       Range(zip_board(word_of_the_day, guess)) \ {""} >>

\* (board, has_letters)
play_wordle(guess, word_of_the_day) ==
    << zip_board(word_of_the_day, guess),
       Range(guess) \cap Range(word_of_the_day) >>

\* contra = set(guess_word) - found
contra_of(guess, fnd) == Range(guess) \ fnd

\* ------------------------------------------------------- most_shared
\* letters[letter]: the number of words of data that hold the letter
letter_count(dat, letter) ==
    Cardinality({i \in DOMAIN dat : letter \in Range(dat[i])})
\* the index of the first word that holds the letter (its insertion)
first_seen(dat, letter) ==
    CHOOSE i \in DOMAIN dat :
        /\ letter \in Range(dat[i])
        /\ \A j \in DOMAIN dat : letter \in Range(dat[j]) => i <= j
\* The `letters` table most_shared returns, as the sequence of its items
\* <<letter, count>>: sorted by descending count, the sort being stable on
\* the insertion order. Two letters first seen in the same word are
\* inserted in the iteration order of a set of strings, which depends on
\* the process's hash seed: every such order is an outcome.
most_shared(dat, has_vowels) ==
    LET shared == IF has_vowels THEN VOWELS ELSE CONSONANTS
        present == {l \in shared : letter_count(dat, l) > 0}
        orders == {s \in [1..Cardinality(present) -> present] :
                     /\ \A i, j \in DOMAIN s : i # j => s[i] # s[j]
                     /\ \A i, j \in DOMAIN s : i < j =>
                          \/ letter_count(dat, s[i]) > letter_count(dat, s[j])
                          \/ /\ letter_count(dat, s[i]) = letter_count(dat, s[j])
                             /\ first_seen(dat, s[i]) <= first_seen(dat, s[j])}
    IN {[i \in DOMAIN s |-> <<s[i], letter_count(dat, s[i])>>] : s \in orders}

\* -------------------------------------------- break_ties, feature_bucket
\* variant: the table is enumerated without reversed(), the most frequent
\* vowel gets index 0
uv_get_forward(letter) ==
    IF \E p \in DOMAIN usage_vowels : usage_vowels[p][1] = letter
    THEN (CHOOSE p \in DOMAIN usage_vowels : usage_vowels[p][1] = letter) - 1
    ELSE 0

\* uv.get(letter, 0): the index of the letter in the reversed vowel table.
\* The table read is the global usage_vowels, not the parameter `usage`.
uv_get(letter) ==
    IF \E p \in DOMAIN usage_vowels : usage_vowels[p][1] = letter
    THEN Len(usage_vowels) - (CHOOSE p \in DOMAIN usage_vowels : usage_vowels[p][1] = letter)
    ELSE 0

\* sum([uv.get(i,0) for i in word])
RECURSIVE score(_)
score(word) ==
    IF word = <<>> THEN 0 ELSE uv_get(Head(word)) + score(Tail(word))

\* variant: the sort is ascending, reverse=True left out
RECURSIVE insert_by_score_ascending(_, _)
insert_by_score_ascending(sorted, word) ==
    IF sorted = <<>> THEN <<word>>
    ELSE IF score(Head(sorted)) <= score(word)
         THEN <<Head(sorted)>> \o insert_by_score_ascending(Tail(sorted), word)
         ELSE <<word>> \o sorted

\* sorted(scored, key=score, reverse=True): stable, equal scores keep their order
RECURSIVE insert_by_score(_, _)
insert_by_score(sorted, word) ==
    IF sorted = <<>> THEN <<word>>
    ELSE IF score(Head(sorted)) >= score(word)
         THEN <<Head(sorted)>> \o insert_by_score(Tail(sorted), word)
         ELSE <<word>> \o sorted
RECURSIVE sorted_by_score(_)
sorted_by_score(words) ==
    IF words = <<>> THEN <<>>
    ELSE insert_by_score(sorted_by_score(SubSeq(words, 1, Len(words) - 1)),
                         words[Len(words)])

break_ties(buckets, usage) ==
    [b \in DOMAIN buckets |-> sorted_by_score(buckets[b])]

\* buckets[len(wordset & cset)].append(word), then break_ties
feature_bucket(cnds, usage, has_vowels) ==
    LET cset == IF has_vowels THEN VOWELS ELSE CONSONANTS
        overlap(w) == Cardinality(Range(w) \cap cset)
        keys == {overlap(cnds[i]) : i \in DOMAIN cnds}
        buckets == [b \in keys |-> SelectSeq(cnds, LAMBDA w : overlap(w) = b)]
    IN break_ties(buckets, usage)

\* ------------------------------------------------------- choose_guess
NoWord == <<>>
\* variant: an empty bucket set yields an empty guess instead of an error
choose_guess_default(buckets) ==
    IF DOMAIN buckets = {} THEN [exc |-> "", word |-> NoWord]
    ELSE [exc |-> "", word |-> buckets[Max(DOMAIN buckets)][1]]

\* max(list(buckets.keys())) raises ValueError on an empty key list
choose_guess(buckets) ==
    IF DOMAIN buckets = {} THEN [exc |-> "ValueError", word |-> NoWord]
    ELSE [exc |-> "", word |-> buckets[Max(DOMAIN buckets)][1]]

\* -------------------------------------------- solved_game, report_solution
\* variant: any filled slot counts as solved
solved_game_any(brd) == \E i \in DOMAIN brd : brd[i] # ""

solved_game(brd) == \A i \in DOMAIN brd : brd[i] # ""

NoResult == [kind |-> "none"]
Raised(type) == [kind |-> "exc", type |-> type]
report_solution(brd, guess_attempt) ==
    [kind |-> "dict", board |-> join(brd), attempts |-> guess_attempt, solved |-> TRUE]
\* the dict h built after the loop
unsolved(brd, guess_attempt) ==
    [kind |-> "dict", board |-> join(brd), attempts |-> guess_attempt, solved |-> FALSE]

\* ---------------------------------------------------------- eliminate
\* variant: a word is dropped only when it holds none of the found letters
lacks_found_none(wordset, fnd) == fnd # {} /\ wordset \cap fnd = {}

\* (1a) len(wordset & found) != len(found)
lacks_found(wordset, fnd) ==
    Cardinality(wordset \cap fnd) # Cardinality(fnd)

\* variant: a word is dropped only when every letter of it is a contra letter
hits_contra_all(wordset, cntr) == wordset \subseteq cntr

\* variant: a single contra letter is tolerated
hits_contra_twice(wordset, cntr) == Cardinality(wordset \cap cntr) > 1

\* (1b) len(wordset & contra) > 0
hits_contra(wordset, cntr) == Cardinality(wordset \cap cntr) > 0

\* variant: the comparison of rule (2) is inverted
off_position_eq(candidate_word, game) ==
    \E i \in 1..Len(game) : game[i] # "" /\ candidate_word[i] = game[i]

\* (2) some filled slot of the board differs from the word's letter there
off_position(candidate_word, game) ==
    \E i \in 1..Len(game) : game[i] # "" /\ candidate_word[i] # game[i]

\* cands.pop(candidate_word)
pop(cnds, candidate_word) == SelectSeq(cnds, LAMBDA w : w # candidate_word)

\* the for loop over candidate_words = list(cands.keys())
RECURSIVE eliminate_loop(_, _, _, _, _)
eliminate_loop(cnds, candidate_words, game, fnd, cntr) ==
    IF candidate_words = <<>> THEN cnds
    ELSE LET candidate_word == Head(candidate_words)
             wordset == Range(candidate_word)
             rest == Tail(candidate_words)
         IN IF lacks_found(wordset, fnd)
            THEN eliminate_loop(pop(cnds, candidate_word), rest, game, fnd, cntr)
            ELSE IF hits_contra(wordset, cntr)
            THEN eliminate_loop(pop(cnds, candidate_word), rest, game, fnd, cntr)
            ELSE IF off_position(candidate_word, game)
            THEN eliminate_loop(pop(cnds, candidate_word), rest, game, fnd, cntr)
            ELSE eliminate_loop(cnds, rest, game, fnd, cntr)

\* variant: the filter runs over the whole word list, not over the pool handed in
eliminate_fresh(cnds, game, fnd, cntr) ==
    SelectSeq(data, LAMBDA w : /\ ~lacks_found(Range(w), fnd)
                               /\ ~hits_contra(Range(w), cntr)
                               /\ ~off_position(w, game))

eliminate(cnds, game, fnd, cntr) ==
    eliminate_loop(cnds, cnds, game, fnd, cntr)

\* ------------------------------------------------------------ notebook
\* The state once cells 1 to 12 have run: the word list is loaded, the
\* vowel table computed, and the global cands built from data.
Init ==
    /\ data \in Dictionaries
    /\ usage_vowels \in most_shared(data, TRUE)
    /\ cands = data
    /\ secret = NoWord
    /\ max_tries = 0
    /\ attempt = 0
    /\ pc = "idle"
    /\ guess_word = NoWord
    /\ board = <<>>
    /\ found = {}
    /\ contra = {}
    /\ result = NoResult
    /\ guesses = <<>>
    /\ cands0 = <<>>
    /\ driver = "none"
    /\ wordle_words = <<>>
    /\ bi = 0
    /\ status = <<>>
    /\ earlier = <<>>

\* compute_wordle is entered: its locals are fresh, wordle_guess_attempt = 1
Enter(pool, word, tries) ==
    /\ cands' = pool
    /\ cands0' = pool
    /\ secret' = word
    /\ max_tries' = tries
    /\ attempt' = 1
    /\ pc' = "while"
    /\ guess_word' = NoWord
    /\ board' = <<>>
    /\ found' = {}
    /\ contra' = {}
    /\ result' = NoResult
    /\ guesses' = <<>>

\* cell 21: compute_wordle(cands, word, usage_vowels, usage_conson, max_tries)
\* on the global pool
Cell21(word, tries) ==
    /\ driver = "none"
    /\ driver' = "direct"
    /\ Enter(cands, word, tries)
    /\ UNCHANGED <<data, usage_vowels, wordle_words, bi, status, earlier>>

\* cell 21 run again once its call has returned or raised: the same call, on
\* the global pool as the call before left it
Cell21Again ==
    /\ driver = "direct"
    /\ pc \in {"returned", "raised"}
    /\ Len(earlier) + 1 < MaxRuns
    /\ earlier' = Append(earlier, result)
    /\ Enter(cands, secret, max_tries)
    /\ UNCHANGED <<data, usage_vowels, driver, wordle_words, bi, status>>

\* ----------------------------------------------------- compute_wordle
\* while wordle_guess_attempt <= max_tries
While ==
    /\ pc = "while"
    /\ pc' = IF attempt <= max_tries THEN "vowel" ELSE "after"
    /\ UNCHANGED <<data, usage_vowels, cands, secret, max_tries, attempt, guess_word,
                   board, found, contra, result, guesses, cands0, driver,
                   wordle_words, bi, status, earlier>>

\* feature_bucket, choose_guess, play_wordle, contra, solved_game: one phase
\* of the loop body up to its return
Guess(has_vowels, next) ==
    LET choice == choose_guess(feature_bucket(cands, usage_vowels, has_vowels))
        played == play_wordle(choice.word, secret)
    IN /\ IF choice.exc # ""
          THEN /\ pc' = "raised"
               /\ result' = Raised(choice.exc)
               /\ UNCHANGED <<guess_word, board, found, contra, guesses>>
          ELSE /\ guess_word' = choice.word
               /\ board' = played[1]
               /\ found' = played[2]
               /\ contra' = contra_of(choice.word, played[2])
               /\ guesses' = Append(guesses, choice.word)
               /\ IF solved_game(played[1])
                  THEN /\ result' = report_solution(played[1], attempt)
                       /\ pc' = "returned"
                  ELSE /\ pc' = next
                       /\ UNCHANGED result
       /\ UNCHANGED <<data, usage_vowels, cands, secret, max_tries, attempt, cands0,
                      driver, wordle_words, bi, status, earlier>>

\* variant: the attempt counter is not advanced after the elimination
Narrow_no_count(next) ==
    /\ cands' = eliminate(cands, board, found, contra)
    /\ pc' = next
    /\ UNCHANGED <<data, usage_vowels, secret, max_tries, attempt, guess_word, board,
                   found, contra, result, guesses, cands0, driver, wordle_words, bi,
                   status, earlier>>

\* cands = eliminate(cands, board, found, contra); wordle_guess_attempt += 1
Narrow(next) ==
    /\ cands' = eliminate(cands, board, found, contra)
    /\ attempt' = attempt + 1
    /\ pc' = next
    /\ UNCHANGED <<data, usage_vowels, secret, max_tries, guess_word, board, found,
                   contra, result, guesses, cands0, driver, wordle_words, bi, status,
                   earlier>>

\* (1) Find vowels
GuessVowels == pc = "vowel" /\ Guess(TRUE, "elim_v")
EliminateVowels == pc = "elim_v" /\ Narrow("conson")
\* variant: the second phase buckets on the vowels as the first does
GuessConsonants_vowels == pc = "conson" /\ Guess(TRUE, "elim_c")
\* (2) Find consonants
GuessConsonants == pc = "conson" /\ Guess(FALSE, "elim_c")
EliminateConsonants == pc = "elim_c" /\ Narrow("while")

\* after the loop: h reads the local board, unassigned when the loop never ran
AfterLoop ==
    /\ pc = "after"
    /\ IF board = <<>>
       THEN /\ pc' = "raised"
            /\ result' = Raised("UnboundLocalError")
       ELSE /\ pc' = "returned"
            /\ result' = unsolved(board, attempt)
    /\ UNCHANGED <<data, usage_vowels, cands, secret, max_tries, attempt, guess_word,
                   board, found, contra, guesses, cands0, driver, wordle_words,
                   bi, status, earlier>>

\* ------------------------------------------------- wordle_simulations
\* random.sample(data, n): n distinct positions of data, in any order
Samples(dat, n) ==
    {[i \in 1..n |-> dat[s[i]]] :
        s \in {t \in [1..n -> DOMAIN dat] : \A i, j \in 1..n : i # j => t[i] # t[j]}}

\* str(exc)
str_exc(type) ==
    IF type = "ValueError" THEN "max() arg is an empty sequence"
    ELSE "local variable 'board' referenced before assignment"

\* cell 24: wordle_simulations(data, n, seed, ..., max_tries, report) up to its
\* loop; random.sample raises when n exceeds the population
Cell24(n, tries) ==
    /\ driver = "none"
    /\ IF n > Len(data)
       THEN /\ driver' = "batch_raised"
            /\ UNCHANGED <<wordle_words, bi, status, max_tries>>
       ELSE /\ driver' = "batch"
            /\ wordle_words' \in Samples(data, n)
            /\ bi' = 1
            /\ status' = <<>>
            /\ max_tries' = tries
    /\ UNCHANGED <<data, usage_vowels, cands, secret, attempt, pc, guess_word, board,
                   found, contra, result, guesses, cands0, earlier>>

\* the loop takes the next wordle_word, rebuilds cands from data and calls
\* compute_wordle
BatchTry ==
    /\ driver = "batch"
    /\ pc = "idle"
    /\ bi <= Len(wordle_words)
    /\ Enter(data, wordle_words[bi], max_tries)
    /\ UNCHANGED <<data, usage_vowels, driver, wordle_words, bi, status, earlier>>

\* status.append((wordle_word, result))
BatchAppend ==
    /\ driver = "batch"
    /\ pc = "returned"
    /\ status' = Append(status, <<secret, result>>)
    /\ bi' = bi + 1
    /\ pc' = "idle"
    /\ UNCHANGED <<data, usage_vowels, cands, secret, max_tries, attempt, guess_word,
                   board, found, contra, result, guesses, cands0, driver, wordle_words,
                   earlier>>

\* variant: no handler, the exception leaves wordle_simulations
BatchExcept_abort ==
    /\ driver = "batch"
    /\ pc = "raised"
    /\ driver' = "batch_raised"
    /\ UNCHANGED <<data, usage_vowels, cands, secret, max_tries, attempt, pc,
                   guess_word, board, found, contra, result, guesses, cands0,
                   wordle_words, bi, status, earlier>>

\* except Exception as exc: status.append((wordle_word, str(exc)))
BatchExcept ==
    /\ driver = "batch"
    /\ pc = "raised"
    /\ status' = Append(status, <<secret, [kind |-> "str", text |-> str_exc(result.type)]>>)
    /\ bi' = bi + 1
    /\ pc' = "idle"
    /\ UNCHANGED <<data, usage_vowels, cands, secret, max_tries, attempt, guess_word,
                   board, found, contra, result, guesses, cands0, driver, wordle_words,
                   earlier>>

\* return status
BatchReturn ==
    /\ driver = "batch"
    /\ pc = "idle"
    /\ bi > Len(wordle_words)
    /\ driver' = "batch_done"
    /\ UNCHANGED <<data, usage_vowels, cands, secret, max_tries, attempt, pc,
                   guess_word, board, found, contra, result, guesses, cands0,
                   wordle_words, bi, status, earlier>>

Next ==
    \/ driver = "none" /\ \E word \in Words, tries \in TriesRange : Cell21(word, tries)
    \/ Cell21Again
    \/ While
    \/ GuessVowels
    \/ EliminateVowels
    \/ GuessConsonants
    \/ EliminateConsonants
    \/ AfterLoop
    \/ driver = "none" /\ \E n \in 0..MaxN, tries \in TriesRange : Cell24(n, tries)
    \/ BatchTry
    \/ BatchAppend
    \/ BatchExcept
    \/ BatchReturn

Spec == Init /\ [][Next]_vars

\* A call of compute_wordle that has been entered runs on: the interpreter
\* executes its next statement. Running a cell is up to the user.
GameStep ==
    \/ While
    \/ GuessVowels
    \/ EliminateVowels
    \/ GuessConsonants
    \/ EliminateConsonants
    \/ AfterLoop

\* ------------------------------------------------- the feedback cells
\* No game runs: the variables of the game and of the batch stay as they are.
NoGame ==
    /\ data = <<>>
    /\ usage_vowels = <<>>
    /\ max_tries = 0
    /\ attempt = 0
    /\ result = NoResult
    /\ guesses = <<>>
    /\ driver = "cell"
    /\ wordle_words = <<>>
    /\ bi = 0
    /\ status = <<>>
    /\ earlier = <<>>

\* cells 16 and 17 on any guess and any word of the day
InitEval ==
    /\ NoGame
    /\ guess_word \in Words
    /\ secret \in Words
    /\ pc = "cell16"
    /\ cands = <<>>
    /\ cands0 = <<>>
    /\ board = <<>>
    /\ found = {}
    /\ contra = {}

\* board, found = play_wordle(guess, word); set(guess) - found
Cell16 ==
    /\ pc = "cell16"
    /\ board' = play_wordle(guess_word, secret)[1]
    /\ found' = play_wordle(guess_word, secret)[2]
    /\ contra' = contra_of(guess_word, play_wordle(guess_word, secret)[2])
    /\ pc' = "cell17"
    /\ UNCHANGED <<data, usage_vowels, cands, secret, max_tries, attempt, guess_word,
                   result, guesses, cands0, driver, wordle_words, bi, status, earlier>>

NextEval == Cell16

SpecEval == InitEval /\ [][NextEval]_vars

\* ---------------------------------------------- the elimination cell
\* cell 19 on any pool test_cands
InitElim ==
    /\ NoGame
    /\ cands \in Dictionaries
    /\ cands0 = <<>>
    /\ guess_word = NoWord
    /\ secret = NoWord
    /\ pc = "cell19"
    /\ board = <<>>
    /\ found = {}
    /\ contra = {}

\* eliminate(test_cands, test_game, test_found, test_contra), on any feedback
Cell19(test_game, test_found, test_contra) ==
    /\ pc = "cell19"
    /\ board' = test_game
    /\ found' = test_found
    /\ contra' = test_contra
    /\ cands0' = cands
    /\ cands' = eliminate(cands, test_game, test_found, test_contra)
    /\ pc' = "cell19_out"
    /\ UNCHANGED <<data, usage_vowels, secret, max_tries, attempt, guess_word,
                   result, guesses, driver, wordle_words, bi, status, earlier>>

NextElim ==
    /\ pc = "cell19"
    /\ \E test_game \in Boards, test_found \in SUBSET Letters, test_contra \in SUBSET Letters :
        Cell19(test_game, test_found, test_contra)

SpecElim == InitElim /\ [][NextElim]_vars

\* --------------------------------------------------------- properties
\* compute_wordle has been entered and its outcome is not yet consumed
InGame == pc \in {"while", "vowel", "elim_v", "conson", "elim_c", "after", "returned", "raised"}
\* the guesses whose feedback eliminate has already been given
Applied == 1..(attempt - 1)
Solved == result.kind = "dict" /\ result.solved
\* a game on valid inputs: max_tries >= 1 and a secret of the word list
ValidGame ==
    /\ InGame
    /\ driver \in {"direct", "batch"}
    /\ max_tries >= 1
    /\ secret \in Range(data)
\* a guess has just been chosen from the pool cands at attempt `attempt`
JustGuessed == pc \in {"elim_v", "elim_c"} \/ (pc = "returned" /\ Solved)
\* len(wordset & cset) for the letter class of the current attempt
phase_overlap(word) ==
    Cardinality(Range(word) \cap (IF attempt % 2 = 1 THEN VOWELS ELSE CONSONANTS))
\* the place of a word in the pool's iteration order
pool_index(word) == CHOOSE i \in DOMAIN cands : cands[i] = word
\* the rank weight of a letter: the number of entries of the vowel table that
\* come after the letter's entry, 0 for a letter without an entry
rank_weight(letter) ==
    Cardinality({p \in DOMAIN usage_vowels :
        \E q \in DOMAIN usage_vowels : usage_vowels[q][1] = letter /\ q < p})
\* the rank weights of a word's letters, added up position by position
RECURSIVE rank_sum(_)
rank_sum(word) ==
    IF word = <<>> THEN 0
    ELSE rank_weight(word[Len(word)]) + rank_sum(SubSeq(word, 1, Len(word) - 1))
\* how far a game is: the attempt counter, then the position within the attempt
Rank(a, p) ==
    4 * a + [while |-> 0, vowel |-> 1, elim_v |-> 2, conson |-> 0, elim_c |-> 1,
             after |-> 2, returned |-> 3, raised |-> 3][p]

\* C1: for every max_tries >= 1 a game issues at most max_tries guesses: once
\* the attempt counter exceeds max_tries no further guess is evaluated, and
\* a solved result never reports more than max_tries attempts.
C1_AtMostMaxTriesGuesses ==
    (InGame /\ max_tries >= 1) =>
        /\ Len(guesses) <= max_tries
        /\ Solved => result.attempts <= max_tries

\* C2: a secret that is in the pool handed to the game is in the pool after
\* every eliminate step, so the pool is never empty while the game guesses.
C2_SecretStaysInPool ==
    (InGame /\ secret \in Range(cands0)) =>
        /\ secret \in Range(cands)
        /\ cands # <<>>
C2_Witness ==
    /\ pc = "conson"
    /\ secret \in Range(cands0)
    /\ secret \in Range(cands)
    /\ Len(cands) < Len(cands0)

\* C3 as claimed: after every eliminate step, every word left in the pool
\* gives, for each guess already made, the same board and the same found
\* set as the secret does.
C3_PoolConsistentWithFeedback ==
    InGame =>
        \A k \in Applied : \A i \in DOMAIN cands :
            play_wordle(guesses[k], cands[i]) = play_wordle(guesses[k], secret)

\* C3 as amended: after every eliminate step, every word left in the pool
\* gives, for each guess already made, the same found and contra sets as the
\* secret does, and carries the board's letter at every filled slot of the
\* board; it may match the guess at a slot the board left empty.
C3_PoolAgreesOnLettersAndFilledSlots ==
    InGame =>
        \A k \in Applied : \A i \in DOMAIN cands :
            LET g == guesses[k]
                w == cands[i]
                fs == play_wordle(g, secret)
                fw == play_wordle(g, w)
            IN /\ fw[2] = fs[2]
               /\ contra_of(g, fw[2]) = contra_of(g, fs[2])
               /\ \A p \in DOMAIN fs[1] :
                     fs[1][p] # "" => (fw[1][p] = fs[1][p] /\ w[p] = fs[1][p])
C3_Witness ==
    /\ pc = "conson"
    /\ \E k \in Applied : \E i \in DOMAIN cands :
          /\ cands[i] # secret
          /\ play_wordle(guesses[k], cands[i])[1] # play_wordle(guesses[k], secret)[1]

\* C4: a game is solved exactly at its first guess that equals the secret;
\* the result then holds solved = true, the secret as board and the 1-based
\* index of that guess as attempts, and neither a guess nor an elimination
\* follows it.
C4_SolvedAtFirstSecretGuess ==
    InGame =>
        /\ Solved <=> \E k \in DOMAIN guesses : guesses[k] = secret
        /\ \A k \in DOMAIN guesses : guesses[k] = secret =>
              /\ k = Len(guesses)
              /\ attempt = k
              /\ pc = "returned"
              /\ result = [kind |-> "dict", board |-> secret, attempts |-> k, solved |-> TRUE]
C4_Witness ==
    /\ pc = "returned"
    /\ Solved
    /\ result.attempts >= 2
    /\ guesses[Len(guesses)] = secret

\* C5: from the moment a pool is handed to a game, every step leaves it a
\* part of what it was: no word is added or re-added and the size never grows.
C5_PoolOnlyShrinks ==
    [][pc # "idle" =>
         /\ Range(cands') \subseteq Range(cands)
         /\ Len(cands') <= Len(cands)]_vars
C5_Witness ==
    /\ pc = "while"
    /\ attempt >= 3
    /\ Len(cands) < Len(cands0)

\* C6: eliminate keeps, in their order, exactly the words that hold every
\* found letter, hold no contra letter and carry the board's letter at every
\* filled slot.
C6_EliminateKeepsExactly ==
    pc = "cell19_out" =>
        cands = SelectSeq(cands0, LAMBDA w :
                    /\ found \subseteq Range(w)
                    /\ Range(w) \cap contra = {}
                    /\ \A i \in DOMAIN board : board[i] # "" => w[i] = board[i])
C6_Witness ==
    /\ pc = "cell19_out"
    /\ Len(cands0) = 2
    /\ Len(cands) = 1
    /\ found # {}
    /\ contra # {}
    /\ \E i \in DOMAIN board : board[i] # ""

\* C7: for a guess and a secret of equal length the board has that length,
\* holds the guessed letter where it equals the secret's and the empty slot
\* elsewhere; found is the set of guessed letters that occur in the secret,
\* contra the guessed letters not in found; the two are disjoint and
\* together make the guess's letter set.
C7_EvaluateFeedback ==
    pc = "cell17" =>
        /\ Len(board) = Len(guess_word)
        /\ \A i \in DOMAIN guess_word :
              board[i] = IF guess_word[i] = secret[i] THEN guess_word[i] ELSE ""
        /\ found = {l \in Letters :
                      /\ \E i \in DOMAIN guess_word : guess_word[i] = l
                      /\ \E j \in DOMAIN secret : secret[j] = l}
        /\ contra = {l \in Letters :
                       /\ \E i \in DOMAIN guess_word : guess_word[i] = l
                       /\ l \notin found}
        /\ found \cap contra = {}
        /\ found \cup contra = Range(guess_word)
C7_Witness ==
    /\ pc = "cell17"
    /\ \E i \in DOMAIN board : board[i] # ""
    /\ \E i \in DOMAIN board : board[i] = ""
    /\ found # {}
    /\ contra # {}

\* C8: a game called with max_tries <= 0 ends by raising
\* InvalidConfigurationError, with no guess issued, no result returned and
\* the pool as it was handed in.
C8_NonPositiveTriesIsInvalidConfiguration ==
    (pc \in {"returned", "raised"} /\ max_tries <= 0) =>
        /\ pc = "raised"
        /\ result = Raised("InvalidConfigurationError")
        /\ guesses = <<>>
        /\ cands = cands0

\* C9: when a guess must be chosen from an empty pool the game raises: its
\* outcome is an error, not a result, and no guess word is produced.
C9_EmptyPoolRaises ==
    [][(pc \in {"vowel", "conson"} /\ cands = <<>>) =>
         /\ pc' = "raised"
         /\ result' = Raised("ValueError")
         /\ guesses' = guesses
         /\ guess_word' = guess_word
         /\ cands' = cands]_vars
C9_Witness ==
    /\ pc = "raised"
    /\ result = Raised("ValueError")
    /\ data # <<>>
    /\ guesses # <<>>
    /\ cands = <<>>

\* C10: the batch holds one entry per secret already played, in sample
\* order, each tagged with its secret and holding the game's result or the
\* text of its error; a game's error never ends the batch, which returns
\* with an entry for every sampled secret.
C10_BatchRecordsEveryGame ==
    /\ driver \in {"batch", "batch_done"} =>
          /\ Len(status) = bi - 1
          /\ Len(status) <= Len(wordle_words)
          /\ \A k \in DOMAIN status :
                /\ status[k][1] = wordle_words[k]
                /\ status[k][2].kind \in {"dict", "str"}
          /\ (pc = "idle" /\ status # <<>>) =>
                status[Len(status)] =
                    <<secret, IF result.kind = "exc"
                              THEN [kind |-> "str", text |-> str_exc(result.type)]
                              ELSE result>>
          /\ driver = "batch_done" => Len(status) = Len(wordle_words)
    /\ driver = "batch_raised" => (pc = "idle" /\ status = <<>> /\ wordle_words = <<>>)
C10_Witness ==
    /\ driver = "batch_done"
    /\ Len(status) >= 2
    /\ status[1][2].kind = "str"

\* C11: two calls of the game with the same word list, secret and max_tries
\* return identical results (board, attempts, solved), also when the second
\* call is made after the first has finished.
C11_SameInputsSameResult ==
    (driver = "direct" /\ pc = "returned" /\ max_tries >= 1 /\ secret \in Range(data)) =>
        \A k \in DOMAIN earlier :
            earlier[k].kind = "dict" => earlier[k] = result

\* C14: every game starts from a pool equal to the full word list, whatever
\* games ran before it: the pool handed to a game holds every word of data,
\* in data's order, so no narrowing of an earlier game shows in it.
C14_EveryGameStartsFromFullWordList ==
    InGame => cands0 = data

\* C12: the phases alternate with the attempt number: the guess of attempt 1
\* and of every odd attempt is the choice from the pool bucketed on the
\* vowels, the guess of every even attempt the choice from the pool bucketed
\* on the consonants, whatever the pool holds.
C12_PhaseFollowsAttemptParity ==
    /\ pc = "vowel" => attempt % 2 = 1
    /\ pc = "conson" => attempt % 2 = 0
    /\ (pc \in {"elim_v", "elim_c"} \/ (pc = "returned" /\ Solved)) =>
          guess_word = choose_guess(feature_bucket(cands, usage_vowels, attempt % 2 = 1)).word
C12_Witness ==
    /\ pc = "elim_c"
    /\ attempt = 2
    /\ guesses[1] # guess_word
    /\ guess_word # choose_guess(feature_bucket(cands, usage_vowels, TRUE)).word

\* C13: every game with max_tries >= 1 and a secret that is in the non-empty
\* word list ends after finitely many steps with a result, solved or not: it
\* neither loops forever nor stops before it has returned. Every step of
\* such a game raises a rank that the attempt bound caps; the game never
\* stops by raising, the one way a call ends without returning; and where
\* it is not about to guess, its next statement can run.
C13_GameTerminates ==
    /\ [](ValidGame =>
            /\ attempt <= max_tries + 2
            /\ pc # "raised"
            /\ pc \in {"while", "elim_v", "elim_c", "after"} => ENABLED GameStep
            /\ pc = "returned" => result.kind = "dict")
    /\ [][(ValidGame /\ pc # "returned") => Rank(attempt', pc') > Rank(attempt, pc)]_vars
C13_Witness ==
    /\ pc = "returned"
    /\ result.kind = "dict"
    /\ ~result.solved
    /\ max_tries = MaxTries
    /\ attempt = max_tries + 2
    /\ secret \in Range(data)

C16_ScoreIsVowelRankSum ==
    pc \in {"vowel", "conson"} =>
        /\ usage_vowels \in most_shared(data, TRUE)
        /\ \A l \in Letters :
              /\ uv_get(l) = rank_weight(l)
              /\ (l \notin VOWELS \/ letter_count(data, l) = 0) => uv_get(l) = 0
              /\ \A m \in Letters :
                    (l \in VOWELS /\ m \in VOWELS /\ 0 < letter_count(data, l)
                        /\ letter_count(data, l) < letter_count(data, m))
                    => uv_get(l) < uv_get(m)
        /\ usage_vowels # <<>> =>
              /\ uv_get(usage_vowels[Len(usage_vowels)][1]) = 0
              /\ uv_get(usage_vowels[1][1]) = Len(usage_vowels) - 1
        /\ \A w \in Range(cands) : score(w) = rank_sum(w)
        /\ LET buckets == feature_bucket(cands, usage_vowels, pc = "vowel")
           IN \A b \in DOMAIN buckets : \A i, j \in DOMAIN buckets[b] :
                 i < j => rank_sum(buckets[b][i]) >= rank_sum(buckets[b][j])
C16_Witness ==
    /\ pc = "conson"
    /\ Len(usage_vowels) = 2
    /\ usage_vowels[1][2] > usage_vowels[2][2]
    /\ \E w \in Range(cands) : score(w) > 0 /\ w[1] = w[2]

\* C17 as stated: within one game no word is guessed twice: once the
\* feedback of a guess that did not solve the game has been applied, the
\* guessed word is no longer in the pool.
C17_NoWordGuessedTwice ==
    InGame =>
        /\ \A i, j \in DOMAIN guesses : i # j => guesses[i] # guesses[j]
        /\ \A k \in Applied \cap DOMAIN guesses : guesses[k] \notin Range(cands)

\* C17, amended: the elimination after a guess that did not solve the game
\* removes the guessed word from the pool exactly when the guess has a
\* letter that is not in the secret, and then the pool strictly shrinks; a
\* guess whose letters all occur in the secret stays in the pool. Only such
\* a word is ever guessed twice in one game.
C17_GuessLeavesPoolIffLetterNotInSecret ==
    /\ [](InGame =>
            \A i, j \in DOMAIN guesses :
                (i # j /\ guesses[i] = guesses[j]) => Range(guesses[i]) \subseteq Range(secret))
    /\ [][(pc \in {"elim_v", "elim_c"}) =>
            /\ guess_word \in Range(cands)
            /\ guess_word \in Range(cands') <=> Range(guess_word) \subseteq Range(secret)
            /\ guess_word \notin Range(cands') => Len(cands') < Len(cands)
            /\ Len(cands') <= Len(cands)]_vars
C17_Witness ==
    /\ pc = "elim_c"
    /\ Len(guesses) = 2
    /\ guesses[1] = guesses[2]
    /\ Len(cands) > 1
    /\ secret \in Range(cands)

\* C18: in every result a game returns, solved or not, the attempts field
\* equals the number of guesses that were evaluated against the secret in
\* that game.
C18_AttemptsCountsGuesses ==
    (pc = "returned" /\ result.kind = "dict") => result.attempts = Len(guesses)

====
